---- MODULE Spec2Model ----
(***************************************************************************)
(* A model of the TfL fetch-and-forward pipeline:                          *)
(*   etl/extract_tfl.py  (_build_session, get_http_session, get_tfl_data,  *)
(*                        get_line_routes)                                 *)
(*   etl/upload_tfl.py   (_resolve_s3_config, upload_line_routes_to_s3)    *)
(*                                                                         *)
(* Conventions.  A Python str is a tuple of one-character strings, so      *)
(* "" is <<>> and "a/" is <<"a","/">>.  A Python list is a tuple.  An      *)
(* Optional value is a set: None is {} and a present value v is {v}.       *)
(* Exceptions are records [type, msg, cause]; msg is the tuple of the      *)
(* pieces of the message, cause the type of the chained exception.         *)
(***************************************************************************)
EXTENDS Integers, Sequences, FiniteSets, TLC

VARIABLES
    env,        \* os.environ: variable name -> Optional[str]
    _session,   \* extract_tfl._session: Optional[Session]
    nbuilt,     \* number of requests.Session objects _build_session has made
    last,       \* the call the caller has just made, with everything it did
    retryIn,    \* one GET through a retrying client: its inputs
    retryOut    \* ... and what the client did with it

vars == <<env, _session, nbuilt, last, retryIn, retryOut>>

-----------------------------------------------------------------------------
(* Bounds of the model *)

\* longest key prefix tried
MaxLen == 2
\* largest max_retries tried for build_client
MaxRetriesBound == 2

-----------------------------------------------------------------------------
(* Python values *)

None == {}
Some(v) == {v}
Val(o) == CHOOSE v \in o : TRUE

\* Python truthiness of an Optional[str] / Optional[list]: None, "" and []
\* are all falsy.
Truthy(o) == o # None /\ Val(o) # <<>>

\* Python `a or b`
Or(a, b) == IF Truthy(a) THEN a ELSE b

\* All strings over alphabet A of length at most n
RECURSIVE StringsUpTo(_, _)
StringsUpTo(A, n) ==
    IF n = 0 THEN {<<>>}
    ELSE LET shorter == StringsUpTo(A, n - 1)
         IN  shorter \cup {Append(s, c) : s \in {t \in shorter : Len(t) = n - 1}, c \in A}

\* sep.join(list)
RECURSIVE Join(_, _)
Join(sep, list) ==
    IF list = <<>> THEN <<>>
    ELSE IF Len(list) = 1 THEN list[1]
    ELSE list[1] \o sep \o Join(sep, Tail(list))

\* Faulty variant: only one trailing character is removed
RStripOnce(s, c) ==
    IF s # <<>> /\ s[Len(s)] = c THEN SubSeq(s, 1, Len(s) - 1) ELSE s

\* str.rstrip(chars) for a single character
RECURSIVE RStrip(_, _)
RStrip(s, c) ==
    IF s # <<>> /\ s[Len(s)] = c THEN RStrip(SubSeq(s, 1, Len(s) - 1), c) ELSE s

Digits == <<"0", "1", "2", "3", "4", "5", "6", "7", "8", "9">>
Digit(n) == Digits[n + 1]
\* %m, %d, %H, %M, %S: two digits, zero padded
Pad2(n) == <<Digit((n \div 10) % 10), Digit(n % 10)>>
\* %Y: four digits, zero padded
Pad4(n) == Pad2(n \div 100) \o Pad2(n % 100)

\* datetime.strftime("%Y%m%dT%H%M%SZ")
Strftime(t) ==
    Pad4(t.year) \o Pad2(t.month) \o Pad2(t.day) \o <<"T">>
        \o Pad2(t.hour) \o Pad2(t.minute) \o Pad2(t.second) \o <<"Z">>

-----------------------------------------------------------------------------
(* Exceptions *)

NoCause == "None"
Exc(type, msg, cause) == [type |-> type, msg |-> msg, cause |-> cause]
NoExc == Exc("None", <<>>, NoCause)

Return(v) == [status |-> "return", value |-> v, exc |-> NoExc]
Raise(e) == [status |-> "raise", value |-> <<>>, exc |-> e]

\* requests.RequestException and the subclasses the transport raises
RequestExceptions == {"ConnectionError", "Timeout", "TooManyRedirects", "HTTPError"}
IsRequestException(type) == type \in RequestExceptions

-----------------------------------------------------------------------------
(* Transport client builder: requests.Session + urllib3 Retry *)

DefaultMaxRetries == 3
\* backoff_factor, in halves of a second (0.5 s)
DefaultBackoffHalves == 1

StatusForcelist == {429, 500, 502, 503, 504}
\* urllib3.util.retry.Retry.RETRY_AFTER_STATUS_CODES
RetryAfterStatusCodes == {413, 429, 503}

\* Faulty variant: one retry too many is granted
RetryOffByOne(max_retries, backoff_factor) ==
    [total |-> max_retries + 1,
     backoff_factor |-> backoff_factor,
     status_forcelist |-> StatusForcelist,
     allowed_methods |-> {"GET"},
     raise_on_status |-> FALSE]

\* The Retry object _build_session configures
Retry(max_retries, backoff_factor) ==
    [total |-> max_retries,
     backoff_factor |-> backoff_factor,
     status_forcelist |-> StatusForcelist,
     allowed_methods |-> {"GET"},
     raise_on_status |-> FALSE]

\* _build_session: a new Session (object number id) with the adapter mounted
_build_session(max_retries, backoff_factor, id) ==
    [id |-> id, retry |-> Retry(max_retries, backoff_factor)]

\* A client the caller injects: not one of the built ones
InjectedClient == [id |-> 0, retry |-> Retry(0, 0)]

\* Retry.is_retry(method, status_code, has_retry_after)
IsRetry(retry, method, status, has_retry_after) ==
    IF method \notin retry.allowed_methods THEN FALSE
    ELSE IF status \in retry.status_forcelist THEN TRUE
    ELSE /\ retry.total # 0
         /\ has_retry_after
         /\ status \in RetryAfterStatusCodes

\* Retry.increment: one retry is spent
Increment(retry) == [retry EXCEPT !.total = @ - 1]

\* Retry.is_exhausted
IsExhausted(retry) == retry.total < 0

\* What the server (or the network) does with one attempt
Attempt(kind, status, retry_after) ==
    [kind |-> kind, status |-> status, retry_after |-> retry_after]

AttemptOutcomes ==
    { Attempt("response", 200, FALSE),
      Attempt("response", 404, FALSE),
      Attempt("response", 413, FALSE),
      Attempt("response", 413, TRUE),
      Attempt("response", 503, FALSE),
      Attempt("ConnectionError", 0, FALSE) }

\* HTTPConnectionPool.urlopen under the adapter's Retry, followed by the
\* adapter's mapping of MaxRetryError.  script[i] is what attempt i meets;
\* retried collects the responses that were followed by another attempt.
RECURSIVE Urlopen(_, _, _, _, _)
Urlopen(retry, method, script, i, retried) ==
    IF i > Len(script)
    THEN [outcome |-> Attempt("unanswered", 0, FALSE), attempts |-> i - 1, retried |-> retried]
    ELSE
    LET r == script[i]
        spent == Increment(retry)
    IN  IF r.kind = "response"
        THEN IF IsRetry(retry, method, r.status, r.retry_after)
             THEN IF IsExhausted(spent)
                  THEN [outcome |-> IF retry.raise_on_status
                                    THEN Attempt("RetryError", 0, FALSE)
                                    ELSE r,
                        attempts |-> i, retried |-> retried]
                  ELSE Urlopen(spent, method, script, i + 1, Append(retried, r))
             ELSE [outcome |-> r, attempts |-> i, retried |-> retried]
        ELSE IF method \notin retry.allowed_methods \/ IsExhausted(spent)
             THEN [outcome |-> r, attempts |-> i, retried |-> retried]
             ELSE Urlopen(spent, method, script, i + 1, retried)

\* session.get(url) on a client, against a script of attempt outcomes
SessionGet(client, script) == Urlopen(client.retry, "GET", script, 1, <<>>)

-----------------------------------------------------------------------------
(* What one GET finally yields to the fetch layer *)

JsonList(items) == [type |-> "list", items |-> items]
JsonDict(keys) == [type |-> "dict", items |-> keys]
JsonNull == [type |-> "NoneType", items |-> <<>>]

Body(is_json, data) == [is_json |-> is_json, data |-> data]
Bodies ==
    { Body(FALSE, JsonNull),
      Body(TRUE, JsonList(<<>>)),
      Body(TRUE, JsonList(<<"r1", "r2">>)),
      Body(TRUE, JsonDict(<<"error">>)),
      Body(TRUE, JsonNull) }

FinalStatuses == {200, 304, 503}

Final(kind, status, body) == [kind |-> kind, status |-> status, body |-> body]
FinalOutcomes ==
    { Final("response", st, b) : st \in FinalStatuses, b \in Bodies }
        \cup { Final(k, 0, Body(FALSE, JsonNull)) : k \in {"ConnectionError", "Timeout"} }

\* Faulty variant: only client errors raise
RaisesForClientErrorOnly(status) == status >= 400 /\ status < 500

\* Response.raise_for_status raises HTTPError for 4xx and 5xx only
RaisesForStatus(status) == status >= 400 /\ status < 600

\* Response.json(): the decoded body, or ValueError (JSONDecodeError)
ResponseJson(resp) ==
    IF resp.body.is_json THEN Return(resp.body.data)
    ELSE Raise(Exc("JSONDecodeError", <<"Expecting value">>, NoCause))

\* Faulty variant: the shape check lets everything through
IsListUnchecked(data) == TRUE

\* type(data).__name__
TypeName(data) == data.type
\* isinstance(data, list)
IsList(data) == data.type = "list"

-----------------------------------------------------------------------------
(* extract_tfl.py *)

TFL_BASE_URL == "https://api.tfl.gov.uk"

\* Faulty variant: a session is built on every call
get_http_session_fresh(cur, n) ==
    LET s == _build_session(DefaultMaxRetries, DefaultBackoffHalves, n + 1)
    IN  [client |-> s, global |-> Some(s), nbuilt |-> n + 1, order |-> <<"build">>]

\* get_http_session on the global cur, n sessions having been built so far
get_http_session(cur, n) ==
    IF cur = None
    THEN LET s == _build_session(DefaultMaxRetries, DefaultBackoffHalves, n + 1)
         IN  [client |-> s, global |-> Some(s), nbuilt |-> n + 1, order |-> <<"build">>]
    ELSE [client |-> Val(cur), global |-> cur, nbuilt |-> n, order |-> <<>>]

\* `session = session or get_http_session()`
PickSession(session, cur, n) ==
    IF session # None
    THEN [client |-> Val(session), global |-> cur, nbuilt |-> n, order |-> <<>>]
    ELSE get_http_session(cur, n)

\* Faulty variant: fails only when both credentials are missing
CredentialsBothMissing(app_id, app_key) == ~Truthy(app_id) /\ ~Truthy(app_key)

\* `if not app_id or not app_key`
CredentialsMissing(app_id, app_key) == ~Truthy(app_id) \/ ~Truthy(app_key)

\* The try/except blocks and the shape check both fetchers share:
\* fail1, fail2, fail3 are the three messages of the function.
Classify(final, fail1, fail2, fail3) ==
    IF final.kind # "response"
    THEN IF IsRequestException(final.kind)
         THEN Raise(Exc("RuntimeError", <<fail1>>, final.kind))
         ELSE Raise(Exc(final.kind, <<>>, NoCause))
    ELSE IF RaisesForStatus(final.status)
    THEN Raise(Exc("RuntimeError", <<fail1>>, "HTTPError"))
    ELSE LET decoded == ResponseJson(final)
         IN  IF decoded.status = "raise"
             THEN Raise(Exc("RuntimeError", <<fail2>>, decoded.exc.type))
             ELSE IF ~IsList(decoded.value)
             THEN Raise(Exc("RuntimeError", <<fail3, TypeName(decoded.value)>>, NoCause))
             ELSE Return(decoded.value)

Get(client, url, params) == [client |-> client.id, url |-> url, params |-> params]

Result(outcome, order, gets, puts, global, n) ==
    [outcome |-> outcome, order |-> order, gets |-> gets, puts |-> puts,
     global |-> global, nbuilt |-> n]

get_tfl_data(stop_point_id, app_id0, app_key0, session, final) ==
    LET app_id == Or(app_id0, env.TFL_APP_ID)
        app_key == Or(app_key0, env.TFL_APP_KEY)
    IN  IF CredentialsMissing(app_id, app_key)
        THEN Result(Raise(Exc("ValueError",
                              <<"Missing TfL credentials (TFL_APP_ID/TFL_APP_KEY).">>,
                              NoCause)),
                    <<>>, <<>>, <<>>, _session, nbuilt)
        ELSE
        LET url == <<TFL_BASE_URL, "/stoppoint/", stop_point_id, "/arrivals">>
            picked == PickSession(session, _session, nbuilt)
            params == [app_id |-> app_id, app_key |-> app_key]
        IN  Result(Classify(final,
                            "Failed to fetch data from TfL API",
                            "TfL API did not return JSON.",
                            "Unexpected TfL response type: "),
                   picked.order \o <<"GET">>,
                   <<Get(picked.client, url, params)>>,
                   <<>>, picked.global, picked.nbuilt)

\* Faulty variant: `if xs is not None`
ParamIfNotNone(key, xs) == IF xs # None THEN key :> Join(<<",">>, Val(xs)) ELSE <<>>

\* `if xs: params[key] = ",".join(xs)`
Param(key, xs) == IF Truthy(xs) THEN key :> Join(<<",">>, Val(xs)) ELSE <<>>

RouteParams(line_ids, service_types, modes) ==
    Param("ids", line_ids) @@ Param("serviceTypes", service_types) @@ Param("modes", modes)

\* get_line_routes, run with the module global cur and n sessions built
LineRoutes(line_ids, service_types, modes, session, final, cur, n) ==
    LET url == <<TFL_BASE_URL, "/Line/Route">>
        params == RouteParams(line_ids, service_types, modes)
        picked == PickSession(session, cur, n)
    IN  Result(Classify(final,
                        "Failed to fetch line routes from TfL API",
                        "TfL API did not return JSON for line routes.",
                        "Unexpected TfL line route response type: "),
               picked.order \o <<"GET">>,
               <<Get(picked.client, url, params)>>,
               <<>>, picked.global, picked.nbuilt)

get_line_routes(line_ids, service_types, modes, session, final) ==
    LineRoutes(line_ids, service_types, modes, session, final, _session, nbuilt)

-----------------------------------------------------------------------------
(* upload_tfl.py *)

\* os.getenv(name, default)
GetenvDefault(name, default) == IF env[name] = None THEN Some(default) ELSE env[name]

\* `if not bucket_name`
BucketMissing(bucket_name) == ~Truthy(bucket_name)

\* Faulty variant: the bucket check is missing
ResolveUnchecked(bucket, key_prefix, aws_region) ==
    LET bucket_name == Or(bucket, env.TFL_S3_BUCKET)
        prefix == Or(key_prefix, GetenvDefault("TFL_S3_PREFIX", <<>>))
        region == Or(aws_region, env.AWS_DEFAULT_REGION)
    IN  Return([bucket_name |-> IF bucket_name = None THEN <<>> ELSE Val(bucket_name),
                prefix |-> Val(prefix),
                region |-> region])

_resolve_s3_config(bucket, key_prefix, aws_region) ==
    LET bucket_name == Or(bucket, env.TFL_S3_BUCKET)
        prefix == Or(key_prefix, GetenvDefault("TFL_S3_PREFIX", <<>>))
        region == Or(aws_region, env.AWS_DEFAULT_REGION)
    IN  IF BucketMissing(bucket_name)
        THEN Raise(Exc("ValueError",
                       <<"S3 bucket must be provided via argument or TFL_S3_BUCKET env">>,
                       NoCause))
        ELSE Return([bucket_name |-> Val(bucket_name),
                     prefix |-> Val(prefix),
                     region |-> region])

Str_line_routes == <<"l", "i", "n", "e", "-", "r", "o", "u", "t", "e", "s", "-">>
Str_json == <<".", "j", "s", "o", "n">>
Str_gz == <<".", "g", "z">>

\* filename = f"line-routes-{timestamp}.json", plus ".gz" when compressing
Filename(timestamp, compress) ==
    LET plain == Str_line_routes \o timestamp \o Str_json
    IN  IF compress THEN plain \o Str_gz ELSE plain

\* object_key = f"{prefix.rstrip('/')}/{filename}" if prefix else filename
ObjectKey(prefix, filename) ==
    IF prefix # <<>> THEN RStrip(prefix, "/") \o <<"/">> \o filename ELSE filename

\* json.dumps(routes, ensure_ascii=False).encode("utf-8")
JsonBytes(routes) == [format |-> "json", ensure_ascii |-> FALSE, value |-> routes]

\* The bytes handed to put_object
DataBytes(routes, filename, compress) ==
    IF compress
    THEN [container |-> "gzip", filename |-> filename, content |-> JsonBytes(routes)]
    ELSE [container |-> "none", filename |-> <<>>, content |-> JsonBytes(routes)]

\* Faulty variant: the object is stored under the bare file name
RECURSIVE Basename(_)
Basename(s) == IF \E i \in 1..Len(s) : s[i] = "/" THEN Basename(Tail(s)) ELSE s
S3PutBareName(bucket_name, object_key, data_bytes) ==
    [Bucket |-> bucket_name, Key |-> Basename(object_key), Body |-> data_bytes]

\* s3_client.put_object(Bucket=..., Key=..., Body=...)
S3Put(bucket_name, object_key, data_bytes) ==
    [Bucket |-> bucket_name, Key |-> object_key, Body |-> data_bytes]

\* What the storage client does with the PUT
StorageOutcomes == {"ok", "ClientError"}

upload_line_routes_to_s3(bucket, key_prefix, line_ids, service_types, modes, compress, aws_region, now, final, storage) ==
    LET cfg == _resolve_s3_config(bucket, key_prefix, aws_region)
    IN  IF cfg.status = "raise"
        THEN Result(cfg, <<>>, <<>>, <<>>, _session, nbuilt)
        ELSE
        LET fetched == get_line_routes(line_ids, service_types, modes, None, final)
        IN  IF fetched.outcome.status = "raise"
            THEN fetched
            ELSE
            LET routes == fetched.outcome.value
                filename == Filename(Strftime(now), compress)
                data_bytes == DataBytes(routes, filename, compress)
                object_key == ObjectKey(cfg.value.prefix, filename)
                put == S3Put(cfg.value.bucket_name, object_key, data_bytes)
                order == fetched.order \o <<"boto3.Session", "client", "put_object">>
            IN  IF storage = "ok"
                THEN Result(Return(object_key), order, fetched.gets, <<put>>,
                            fetched.global, fetched.nbuilt)
                ELSE Result(Raise(Exc(storage, <<"put_object failed">>, NoCause)),
                            order, fetched.gets, <<put>>,
                            fetched.global, fetched.nbuilt)

-----------------------------------------------------------------------------
(* Inputs *)

AppIdArgs == {None, Some(<<>>), Some(<<"i", "d">>)}
AppKeyArgs == {None, Some(<<>>), Some(<<"k", "e", "y">>)}
SessionArgs == {None, Some(InjectedClient)}
StopPoints == {<<"4", "9", "0", "G">>}

\* A filter argument: absent, empty, and lists of one and two values
FilterArgs ==
    {None, Some(<<>>), Some(<< <<>> >>), Some(<< <<"1">> >>), Some(<< <<"1">>, <<"2">> >>)}
\* The filters an upload passes through
UploadLineIds == {None, Some(<< <<"1">>, <<"2">> >>)}

BucketArgs == {None, Some(<<>>), Some(<<"b">>)}
PrefixArgs == {None} \cup {Some(p) : p \in StringsUpTo({"a", "/"}, MaxLen)}
RegionArgs == {None, Some(<<"e", "u">>)}

Clocks ==
    { [year |-> 2024, month |-> 1, day |-> 5, hour |-> 9, minute |-> 3, second |-> 7],
      [year |-> 1999, month |-> 12, day |-> 31, hour |-> 23, minute |-> 59, second |-> 59] }

Environments ==
    [TFL_APP_ID : {None, Some(<<"I", "D">>)},
     TFL_APP_KEY : {None, Some(<<"K", "E", "Y">>)},
     TFL_S3_BUCKET : {None, Some(<<"B">>)},
     TFL_S3_PREFIX : {None, Some(<<"e", "/">>)},
     AWS_DEFAULT_REGION : {None}]

NoEnvironment ==
    [TFL_APP_ID |-> None, TFL_APP_KEY |-> None, TFL_S3_BUCKET |-> None,
     TFL_S3_PREFIX |-> None, AWS_DEFAULT_REGION |-> None]

\* Scripts of attempt outcomes of length n
RECURSIVE Scripts(_)
Scripts(n) ==
    IF n = 0 THEN {<<>>}
    ELSE {Append(s, a) : s \in Scripts(n - 1), a \in AttemptOutcomes}

RetryInputs ==
    [max_retries : 0..MaxRetriesBound,
     backoff_factor : {0, DefaultBackoffHalves},
     script : Scripts(MaxRetriesBound + 2)]

NoRetryInput == [max_retries |-> 0, backoff_factor |-> 0, script |-> <<>>]
NoRetryOutput ==
    [done |-> FALSE, outcome |-> Attempt("none", 0, FALSE), attempts |-> 0, retried |-> <<>>]

-----------------------------------------------------------------------------
(* The caller *)

Idle ==
    [op |-> "idle", args |-> <<>>, outcome |-> Return(<<>>), order |-> <<>>,
     gets |-> <<>>, puts |-> <<>>, before |-> None]

\* A call has been made with args and did r
Called(op, args, r) ==
    /\ last' = [op |-> op, args |-> args, outcome |-> r.outcome, order |-> r.order,
                gets |-> r.gets, puts |-> r.puts, before |-> _session]
    /\ _session' = r.global
    /\ nbuilt' = r.nbuilt
    /\ UNCHANGED <<env, retryIn, retryOut>>

Init ==
    /\ env \in Environments
    /\ _session = None
    /\ nbuilt = 0
    /\ last = Idle
    /\ retryIn = NoRetryInput
    /\ retryOut = NoRetryOutput

CallArrivals ==
    /\ last.op = "idle"
    /\ \E stop \in StopPoints, app_id \in AppIdArgs, app_key \in AppKeyArgs,
          session \in SessionArgs, final \in FinalOutcomes :
          Called("get_tfl_data",
                 [stop_point_id |-> stop, app_id |-> app_id, app_key |-> app_key,
                  session |-> session, final |-> final],
                 get_tfl_data(stop, app_id, app_key, session, final))

CallLineRoutes ==
    /\ last.op = "idle"
    /\ \E line_ids \in FilterArgs, service_types \in FilterArgs, modes \in FilterArgs,
          session \in SessionArgs, final \in FinalOutcomes :
          Called("get_line_routes",
                 [line_ids |-> line_ids, service_types |-> service_types,
                  modes |-> modes, session |-> session, final |-> final],
                 get_line_routes(line_ids, service_types, modes, session, final))

CallUpload ==
    /\ last.op = "idle"
    /\ \E bucket \in BucketArgs, key_prefix \in PrefixArgs, line_ids \in UploadLineIds,
          compress \in BOOLEAN, aws_region \in RegionArgs, now \in Clocks,
          final \in FinalOutcomes, storage \in StorageOutcomes :
          Called("upload_line_routes_to_s3",
                 [bucket |-> bucket, key_prefix |-> key_prefix, line_ids |-> line_ids,
                  service_types |-> None, modes |-> None, compress |-> compress,
                  aws_region |-> aws_region, now |-> now, final |-> final,
                  storage |-> storage],
                 upload_line_routes_to_s3(bucket, key_prefix, line_ids, None, None,
                                          compress, aws_region, now, final, storage))

\* The caller has looked at the result and goes on to its next call
CallerContinues ==
    /\ last.op # "idle"
    /\ last' = Idle
    /\ UNCHANGED <<env, _session, nbuilt, retryIn, retryOut>>

Next == CallArrivals \/ CallLineRoutes \/ CallUpload \/ CallerContinues

Spec == Init /\ [][Next]_vars

-----------------------------------------------------------------------------
(* One GET through a client made by _build_session(max_retries, backoff) *)

InitRetry ==
    /\ env = NoEnvironment
    /\ _session = None
    /\ nbuilt = 0
    /\ last = Idle
    /\ retryIn \in RetryInputs
    /\ retryOut = NoRetryOutput

ClientGet ==
    /\ ~retryOut.done
    /\ LET client == _build_session(retryIn.max_retries, retryIn.backoff_factor, 1)
           got == SessionGet(client, retryIn.script)
       IN  retryOut' = [done |-> TRUE, outcome |-> got.outcome,
                        attempts |-> got.attempts, retried |-> got.retried]
    /\ UNCHANGED <<env, _session, nbuilt, last, retryIn>>

NextRetry == ClientGet

SpecRetry == InitRetry /\ [][NextRetry]_vars

-----------------------------------------------------------------------------
(* Properties *)

FetchOps == {"get_tfl_data", "get_line_routes"}

\* Neither the argument nor the environment variable supplies a value
NoValue(arg, name) == ~Truthy(arg) /\ ~Truthy(env[name])

\* The value the claim calls resolved: the argument, else the variable
Resolved(arg, name) ==
    IF Truthy(arg) THEN Val(arg) ELSE IF Truthy(env[name]) THEN Val(env[name]) ELSE <<>>

Raised(type) == last.outcome.status = "raise" /\ last.outcome.exc.type = type
Returned == last.outcome.status = "return"

\* The call touched neither the transport nor the storage client
NothingInvoked ==
    /\ last.gets = <<>>
    /\ last.puts = <<>>
    /\ last.order = <<>>
    /\ _session = last.before

ArrivalsCredentialAbsent ==
    /\ last.op = "get_tfl_data"
    /\ \/ NoValue(last.args.app_id, "TFL_APP_ID")
       \/ NoValue(last.args.app_key, "TFL_APP_KEY")

\* C1: get_tfl_data fails with the configuration error (ValueError) whenever
\* one of the two credentials has no value from argument or environment, and
\* then no GET is issued and the shared session is not created.
C1_MissingCredentialFailsOffline ==
    ArrivalsCredentialAbsent => Raised("ValueError") /\ NothingInvoked

\* Only one credential is absent, the session does not exist yet, and the
\* call has failed.
C1_Witness ==
    /\ last.op = "get_tfl_data"
    /\ NoValue(last.args.app_id, "TFL_APP_ID")
    /\ ~NoValue(last.args.app_key, "TFL_APP_KEY")
    /\ last.args.session = None
    /\ last.before = None
    /\ Raised("ValueError")

\* The GET of the call was answered and passed raise_for_status, and its body
\* decoded to JSON
Decoded ==
    /\ last.op \in FetchOps
    /\ last.gets # <<>>
    /\ last.args.final.kind = "response"
    /\ last.args.final.status < 400
    /\ last.args.final.body.is_json

\* C2: in both fetchers a decoded body that is not a list fails with the fetch
\* error (RuntimeError) whose message carries the observed type name, and is
\* never returned or wrapped; every value a fetcher returns is a list, the
\* decoded body itself.
C2_NonListIsFatal ==
    /\ (Decoded /\ last.args.final.body.data.type # "list") =>
          /\ Raised("RuntimeError")
          /\ \E i \in 1..Len(last.outcome.exc.msg) :
                last.outcome.exc.msg[i] = last.args.final.body.data.type
    /\ (last.op \in FetchOps /\ Returned) =>
          /\ last.outcome.value.type = "list"
          /\ last.outcome.value = last.args.final.body.data

\* Each fetcher has met a dict body on a 200 response.
C2_Witness ==
    /\ Decoded
    /\ last.op = "get_line_routes"
    /\ last.args.final.status = 200
    /\ last.args.final.body.data.type = "dict"
    /\ Raised("RuntimeError")

\* C3: upload_line_routes_to_s3 raises the configuration error (ValueError)
\* when no bucket comes from the argument or TFL_S3_BUCKET, before the route
\* fetch and before the storage client is touched.
C3_MissingBucketFailsOffline ==
    (last.op = "upload_line_routes_to_s3" /\ NoValue(last.args.bucket, "TFL_S3_BUCKET"))
        => Raised("ValueError") /\ NothingInvoked

\* An upload without a bucket has failed although fetch and storage would
\* both have succeeded.
C3_Witness ==
    /\ last.op = "upload_line_routes_to_s3"
    /\ NoValue(last.args.bucket, "TFL_S3_BUCKET")
    /\ last.args.final.kind = "response"
    /\ last.args.final.status = 200
    /\ last.args.final.body.data.type = "list"
    /\ last.args.storage = "ok"
    /\ Raised("ValueError")

\* C4: when the storage client's PUT fails, the upload fails with an upload
\* error that wraps the storage client's exception as its cause; the storage
\* client's own exception never reaches the caller, and no key is returned.
C4_StorageFailureIsWrapped ==
    (last.op = "upload_line_routes_to_s3" /\ last.puts # <<>> /\ last.args.storage # "ok")
        => /\ last.outcome.status = "raise"
           /\ last.outcome.exc.type # last.args.storage
           /\ last.outcome.exc.cause = last.args.storage

\* The GET of a fetcher was issued
FetchIssued == last.op \in FetchOps /\ last.gets # <<>>

\* The call failed with the fetch error, wrapping a cause, after one GET
FetchErrorWrapping ==
    /\ Raised("RuntimeError")
    /\ last.outcome.exc.cause # NoCause
    /\ Len(last.gets) = 1

\* C5 as stated: every transport failure, a non-2xx final response included,
\* surfaces as the fetch error wrapping its cause, and so does a 2xx response
\* whose body is not JSON; no value is returned and no further GET is issued.
C5_Original ==
    FetchIssued =>
        /\ (last.args.final.kind # "response") => FetchErrorWrapping
        /\ (/\ last.args.final.kind = "response"
            /\ ~(last.args.final.status >= 200 /\ last.args.final.status < 300))
              => FetchErrorWrapping
        /\ (/\ last.args.final.kind = "response"
            /\ last.args.final.status >= 200 /\ last.args.final.status < 300
            /\ ~last.args.final.body.is_json)
              => FetchErrorWrapping

\* C5 amended: the final responses that surface as the fetch error by their
\* status are the 4xx and 5xx ones.
C5_TransportFailureIsFetchError ==
    FetchIssued =>
        /\ (last.args.final.kind # "response") => FetchErrorWrapping
        /\ (/\ last.args.final.kind = "response"
            /\ last.args.final.status >= 400 /\ last.args.final.status < 600)
              => FetchErrorWrapping
        /\ (/\ last.args.final.kind = "response"
            /\ last.args.final.status >= 200 /\ last.args.final.status < 300
            /\ ~last.args.final.body.is_json)
              => FetchErrorWrapping

\* A fetch has met a 503 final response carrying a JSON list and has failed.
C5_Witness ==
    /\ FetchIssued
    /\ last.args.final.kind = "response"
    /\ last.args.final.status = 503
    /\ last.args.final.body.data.type = "list"
    /\ last.args.final.body.is_json
    /\ FetchErrorWrapping
    /\ last.outcome.exc.cause = "HTTPError"

\* The responses that may be followed by another attempt, as the claim has it
\* and as urllib3 has it (Retry-After is honoured on 413, 429 and 503)
InForcelist(r) == r.status \in {429, 500, 502, 503, 504}
HonoursRetryAfter(r) == r.retry_after /\ r.status \in {413, 429, 503}

RetriedResponses == {retryOut.retried[i] : i \in 1..Len(retryOut.retried)}

\* Whenever the last attempt met a response, the client yields that response
YieldsLastResponse ==
    /\ retryOut.attempts >= 1
    /\ retryIn.script[retryOut.attempts].kind = "response"
          => retryOut.outcome = retryIn.script[retryOut.attempts]

\* C6 as stated: only a response with a status of the forcelist is retried,
\* the attempts of one GET never exceed max_retries, and on exhaustion the
\* client yields the last response instead of raising.
C6_Original ==
    retryOut.done =>
        /\ \A r \in RetriedResponses : InForcelist(r)
        /\ retryOut.attempts <= retryIn.max_retries
        /\ YieldsLastResponse

\* C6 amended: a retried response has a status of the forcelist or is a 413
\* carrying Retry-After; the retries never exceed max_retries, so the attempts
\* never exceed max_retries + 1; on exhaustion the last response is yielded.
C6_RetryPolicy ==
    retryOut.done =>
        /\ \A r \in RetriedResponses : InForcelist(r) \/ HonoursRetryAfter(r)
        /\ retryOut.attempts <= retryIn.max_retries + 1
        /\ YieldsLastResponse

\* Two retries were allowed, three attempts all met 503, and the third 503 is
\* what the client yielded.
C6_Witness ==
    /\ retryOut.done
    /\ retryIn.max_retries = 2
    /\ retryOut.attempts = 3
    /\ \A i \in 1..3 : retryIn.script[i] = Attempt("response", 503, FALSE)
    /\ retryOut.outcome = Attempt("response", 503, FALSE)
    /\ Len(retryOut.retried) = 2

\* str.split(sep) for a one-character separator
RECURSIVE Split(_, _)
Split(s, c) ==
    IF \A i \in 1..Len(s) : s[i] # c THEN <<s>>
    ELSE LET i == CHOOSE j \in 1..Len(s) : s[j] = c /\ \A k \in 1..(j - 1) : s[k] # c
         IN  <<SubSeq(s, 1, i - 1)>> \o Split(SubSeq(s, i + 1, Len(s)), c)

FilterKeys == {"ids", "serviceTypes", "modes"}
FilterOf(key) ==
    CASE key = "ids" -> last.args.line_ids
      [] key = "serviceTypes" -> last.args.service_types
      [] key = "modes" -> last.args.modes

\* The query of the call carries each present filter under its own key,
\* comma-joined in order, and no key for an absent or empty filter
FiltersSerialized ==
    LET params == last.gets[1].params
    IN  /\ DOMAIN params \subseteq FilterKeys
        /\ \A k \in FilterKeys :
              LET f == FilterOf(k)
              IN  IF f # None /\ Val(f) # <<>>
                  THEN k \in DOMAIN params /\ Split(params[k], ",") = Val(f)
                  ELSE k \notin DOMAIN params

\* C7 as stated: each present filter is sent comma-joined under its own key,
\* an absent or empty filter sends no key, and no key is ever sent with an
\* empty value.
C7_Original ==
    last.op = "get_line_routes" =>
        /\ FiltersSerialized
        /\ \A k \in DOMAIN last.gets[1].params : last.gets[1].params[k] # <<>>

\* C7 amended: a key is sent with an empty value only for the filter [""].
C7_FiltersSerialized ==
    last.op = "get_line_routes" =>
        /\ FiltersSerialized
        /\ \A k \in DOMAIN last.gets[1].params :
              last.gets[1].params[k] = <<>> => FilterOf(k) = Some(<< <<>> >>)

\* line_ids=["1","2"] went out as ids=1,2 while service_types=[] and an
\* absent modes sent no key.
C7_Witness ==
    /\ last.op = "get_line_routes"
    /\ last.args.line_ids = Some(<< <<"1">>, <<"2">> >>)
    /\ last.args.service_types = Some(<<>>)
    /\ last.args.modes = None
    /\ DOMAIN last.gets[1].params = {"ids"}
    /\ last.gets[1].params["ids"] = <<"1", ",", "2">>

\* p with all its trailing slashes trimmed: the t that does not end in a slash
\* and is followed in p by slashes only
IsTrimmed(t, p) ==
    /\ Len(t) <= Len(p)
    /\ t = SubSeq(p, 1, Len(t))
    /\ \A i \in (Len(t) + 1)..Len(p) : p[i] = "/"
    /\ t # <<>> => t[Len(t)] # "/"

\* C8: the key an upload returns is line-routes-{timestamp}.json, with .gz
\* appended exactly when compress is set, preceded by the resolved prefix
\* with its trailing slashes trimmed and one slash when that prefix is not
\* empty, and by nothing when it is empty.
C8_ObjectKey ==
    (last.op = "upload_line_routes_to_s3" /\ Returned) =>
        LET prefix == Resolved(last.args.key_prefix, "TFL_S3_PREFIX")
            name == Str_line_routes \o Strftime(last.args.now) \o Str_json
                        \o (IF last.args.compress THEN Str_gz ELSE <<>>)
            key == last.outcome.value
        IN  IF prefix = <<>> THEN key = name
            ELSE \E n \in 0..Len(prefix) :
                    LET t == SubSeq(prefix, 1, n)
                    IN  IsTrimmed(t, prefix) /\ key = t \o <<"/">> \o name

\* A compressed upload under a prefix made only of slashes has returned.
C8_Witness ==
    /\ last.op = "upload_line_routes_to_s3"
    /\ Returned
    /\ last.args.key_prefix = Some(<<"/", "/">>)
    /\ last.args.compress
    /\ last.outcome.value = <<"/">> \o Filename(Strftime(last.args.now), TRUE)

\* What holds of the shared session whatever the call
SharedSessionKept ==
    /\ nbuilt <= 1
    /\ (_session = None) <=> (nbuilt = 0)
    /\ (last.op # "idle" /\ last.before # None) => _session = last.before

\* A call that injects a client uses it and leaves the shared one alone
InjectedUsed ==
    (last.op \in FetchOps /\ last.args.session # None) =>
        /\ \A i \in 1..Len(last.gets) : last.gets[i].client = Val(last.args.session).id
        /\ _session = last.before
        /\ \A i \in 1..Len(last.order) : last.order[i] # "build"

\* A call that does not inject has the shared session, built in this call
\* exactly when there was none, and has issued its GET on it
SharedUsed ==
    /\ _session # None
    /\ Len(last.gets) = 1
    /\ last.gets[1].client = Val(_session).id
    /\ IF last.before = None
       THEN last.order = <<"build", "GET">>
       ELSE last.order = <<"GET">>

\* C9 as stated: the shared session is created on the first call that does
\* not inject a client, built at most once and never replaced; an injecting
\* call uses the injected client and leaves the shared one alone.
C9_Original ==
    /\ SharedSessionKept
    /\ InjectedUsed
    /\ (last.op \in FetchOps /\ last.args.session = None) => SharedUsed

\* C9 amended: the shared session is created on the first non-injecting call
\* that gets past credential resolution.
C9_SharedSession ==
    /\ SharedSessionKept
    /\ InjectedUsed
    /\ (/\ last.op \in FetchOps
        /\ last.args.session = None
        /\ ~ArrivalsCredentialAbsent) => SharedUsed

\* A non-injecting call has issued its GET on the session an earlier call
\* built.
C9_Witness ==
    /\ last.op = "get_tfl_data"
    /\ last.args.session = None
    /\ last.before # None
    /\ last.gets # <<>>
    /\ last.gets[1].client = Val(last.before).id
    /\ nbuilt = 1

\* The position of event e in the call, 0 when it did not happen
Position(e) ==
    IF \E i \in 1..Len(last.order) : last.order[i] = e
    THEN CHOOSE i \in 1..Len(last.order) : last.order[i] = e
    ELSE 0

\* C10: within one upload the route fetch comes before the storage PUT; a PUT
\* is made only after the fetch returned a list, so a failed fetch means no
\* PUT; an upload that returns has made exactly one PUT, to the resolved
\* bucket, under the key it returns.
C10_UploadOrder ==
    last.op = "upload_line_routes_to_s3" =>
        /\ last.puts # <<>> =>
              /\ Position("GET") > 0
              /\ Position("GET") < Position("put_object")
              /\ last.args.final.kind = "response"
              /\ last.args.final.body.is_json
              /\ last.args.final.body.data.type = "list"
              /\ last.puts[1].Body.content.value = last.args.final.body.data
        /\ Raised("RuntimeError") => last.puts = <<>> /\ Position("put_object") = 0
        /\ Returned =>
              /\ Len(last.puts) = 1
              /\ Len(last.gets) = 1
              /\ last.puts[1].Bucket = Resolved(last.args.bucket, "TFL_S3_BUCKET")
              /\ last.puts[1].Key = last.outcome.value

\* An upload under a prefix has returned after one GET and one PUT.
C10_Witness ==
    /\ last.op = "upload_line_routes_to_s3"
    /\ Returned
    /\ last.args.key_prefix = Some(<<"a", "/">>)
    /\ last.args.bucket = None
    /\ last.order = <<"build", "GET", "boto3.Session", "client", "put_object">>
    /\ last.puts[1].Bucket = <<"B">>
    /\ Len(last.outcome.value) > 2

====
